---- MODULE Spec2Model ----
(***************************************************************************)
(* Model of the Q&A single-page client: the App component's view state     *)
(* (src/qa_frontend/src/App.js, lines 1-202) and the api client it calls   *)
(* (getBackendBaseUrl, buildRequestInit, doFetch, askQuestion, getHistory, *)
(* lines 213-356 of the same file, and their later revisions, lines        *)
(* 358-549 and 551-747).                                                   *)
(*                                                                         *)
(* Spec is the component with the backend; FairSpec adds that every call   *)
(* of askQuestion completes; FormSpec lets handleSubmit run only while the *)
(* submit button is enabled; ApiSpec is one call of the api client or of   *)
(* readableError on its own.                                               *)
(*                                                                         *)
(* JavaScript values are tagged records:                                   *)
(*   [t |-> "undefined"], [t |-> "null"], [t |-> "number", n |-> k],       *)
(*   [t |-> "string", s |-> chars],                                        *)
(*   [t |-> "array", a |-> items], [t |-> "object", f |-> fields].         *)
(* A string is a sequence of symbols: single characters for user text, and *)
(* one symbol for each literal the code writes (a message, a path).        *)
(***************************************************************************)
EXTENDS Integers, Sequences, FiniteSets, TLC

VARIABLES
  theme, question, history, loading, error, activeRecord,  \* the useState values
  mounted,   \* the effect's `mounted` flag: the component is on the page
  histReq,   \* the getHistory() call of the mount effect
  subs,      \* the handleSubmit calls waiting at `await askQuestion(q)`
  requests,  \* every request handed to fetch, in order
  db,        \* the records the backend holds, newest first
  ev,        \* the last event the component handled (in ApiSpec: the call made)
  out,       \* the fetch outcome that event handled, if any
  res        \* what doFetch made of it (or the item a selection chose)

view == <<theme, question, history, loading, error, activeRecord>>
vars == <<theme, question, history, loading, error, activeRecord,
          mounted, histReq, subs, requests, db, ev, out, res>>

\* ------------------------------------------------------------------ bounds
\* Number of submit events that reach askQuestion in one run.
MaxSubmits == 2
\* Number of records a backend that is not empty holds when the page is opened.
MaxOld == 1

\* --------------------------------------------------------------- JS values
Undefined == [t |-> "undefined"]
Null == [t |-> "null"]
Str(s) == [t |-> "string", s |-> s]
Num(n) == [t |-> "number", n |-> n]
Arr(a) == [t |-> "array", a |-> a]
Obj(f) == [t |-> "object", f |-> f]

\* JavaScript truthiness of the values above ("" is the only falsy string).
Truthy(v) ==
  /\ v.t \notin {"undefined", "null"}
  /\ ~(v.t = "string" /\ v.s = <<>>)
  /\ ~(v.t = "number" /\ v.n = 0)

\* a || b
Or(a, b) == IF Truthy(a) THEN a ELSE b

\* v?.k : the property k of v, undefined when v has none (or is null/undefined).
Get(v, k) ==
  IF v.t = "object" /\ k \in DOMAIN v.f THEN v.f[k] ELSE Undefined

\* v.length
Length(v) ==
  CASE v.t = "array" -> Len(v.a)
    [] v.t = "string" -> Len(v.s)
    [] OTHER -> -1

\* v.length > 0 (undefined > 0 is false)
LengthPositive(v) == Length(v) > 0

\* v[0] of an array or a string
Index0(v) ==
  CASE v.t = "array" /\ Len(v.a) > 0 -> v.a[1]
    [] v.t = "string" /\ Len(v.s) > 0 -> Str(<<v.s[1]>>)
    [] OTHER -> Undefined

\* String.prototype.trim over the symbols of the model (" " is the whitespace).
RECURSIVE TrimLeft(_)
TrimLeft(s) ==
  IF s = <<>> THEN s
  ELSE IF Head(s) = " " THEN TrimLeft(Tail(s)) ELSE s

RECURSIVE TrimRight(_)
TrimRight(s) ==
  IF s = <<>> THEN s
  ELSE IF s[Len(s)] = " " THEN TrimRight(SubSeq(s, 1, Len(s) - 1)) ELSE s

Trim(s) == TrimRight(TrimLeft(s))

\* The order in which JSON.stringify writes the keys the model uses.
KeyOrder == <<"id", "question", "answer", "detail", "message", "code">>

RECURSIVE StringifyKeys(_, _, _)
RECURSIVE Stringify(_)
RECURSIVE StringifyItems(_, _)

\* JSON.stringify(v), as a sequence of symbols.
Stringify(v) ==
  CASE v.t = "string" -> <<"\"">> \o v.s \o <<"\"">>
    [] v.t = "number" -> <<ToString(v.n)>>
    [] v.t = "null" -> <<"null">>
    [] v.t = "array" -> <<"[">> \o StringifyItems(v.a, 1) \o <<"]">>
    [] v.t = "object" -> <<"{">> \o StringifyKeys(v.f, 1, TRUE) \o <<"}">>
    [] OTHER -> <<>>

StringifyItems(a, i) ==
  IF i > Len(a) THEN <<>>
  ELSE (IF i > 1 THEN <<",">> ELSE <<>>) \o Stringify(a[i]) \o StringifyItems(a, i + 1)

\* Properties whose value is undefined are left out.
StringifyKeys(f, i, first) ==
  IF i > Len(KeyOrder) THEN <<>>
  ELSE IF KeyOrder[i] \in DOMAIN f /\ f[KeyOrder[i]].t # "undefined"
       THEN (IF first THEN <<>> ELSE <<",">>)
            \o <<"\"", KeyOrder[i], "\"", ":">> \o Stringify(f[KeyOrder[i]])
            \o StringifyKeys(f, i + 1, FALSE)
       ELSE StringifyKeys(f, i + 1, first)

\* ------------------------------------------------------------- api client
\* The fallback of getBackendBaseUrl (no REACT_APP_BACKEND_URL, no origin).
DefaultBase == <<"http://localhost:3001">>

AskPath == <<"/", "api/qa/ask">>
HistoryPath == <<"/", "api/qa/history">>

\* buildRequestInit(method, data): data = Undefined stands for "no data".
buildRequestInit(method, data) ==
  [method |-> method,
   headers |-> [ContentType |-> <<"application/json">>],
   body |-> IF data.t # "undefined" THEN Str(Stringify(data)) ELSE Undefined]

\* `${base}${path.startsWith('/') ? '' : '/'}${path}`
UrlOf(base, path) ==
  base \o (IF path # <<>> /\ Head(path) = "/" THEN <<>> ELSE <<"/">>) \o path

\* What fetch(url, init) can produce: a rejection, or a Response.  body is the
\* value resp.json() parses (content-type JSON) or the text resp.text() reads;
\* [t |-> "unreadable"] makes either of them reject.
FetchRejected == [net |-> "rejected"]
Response(status, statusText, contentType, body) ==
  [net |-> "response", ok |-> (status >= 200 /\ status <= 299), status |-> status,
   statusText |-> statusText, contentType |-> contentType, body |-> body]
Unreadable == [t |-> "unreadable"]

Return(v) == [k |-> "return", v |-> v]
Throw(e) == [k |-> "throw", e |-> e]

\* contentType.includes('application/json')
IsJson(resp) ==
  LET contentType == Or(resp.contentType, Str(<<>>))
  IN \E i \in 1..Len(contentType.s) : contentType.s[i] = "application/json"

\* detail = body?.detail || body?.message || body
DetailOfBody(body) == Or(Or(Get(body, "detail"), Get(body, "message")), body)

\* The detail doFetch attaches to the error of a non-2xx response.
DetailOf(resp) ==
  IF resp.body.t = "unreadable" THEN Undefined
  ELSE IF IsJson(resp) THEN DetailOfBody(resp.body)
  ELSE resp.body

NetworkError(url, cause) ==
  Obj([message |-> Str(<<"Network error while contacting backend">>),
       cause |-> cause, url |-> Str(url)])

BackendError(url, resp) ==
  Obj([message |-> Str(<<"Backend error: ", ToString(resp.status), " ", resp.statusText>>),
       status |-> Num(resp.status), url |-> Str(url), detail |-> DetailOf(resp)])

\* What resp.json() / resp.text() reject with.
BodyError == Obj([message |-> Str(<<"Failed to read body">>)])

\* What fetch rejects with.
FetchCause == Obj([message |-> Str(<<"Failed to fetch">>)])

\* The network error of the later revisions when `window` is defined.
NetworkErrorWithHint(url, cause) ==
  Obj([message |-> Str(<<"Network error while contacting backend">>),
       cause |-> cause, url |-> Str(url),
       hint |-> Str(<<"Check backend availability, CORS, and protocol/port.">>)])

\* doFetch from `await fetch(url, init)` on, when fetch answers `outcome`.
FetchResult(url, hinted, outcome) ==
  IF outcome.net = "rejected"
  THEN Throw(IF hinted THEN NetworkErrorWithHint(url, FetchCause)
                       ELSE NetworkError(url, FetchCause))
  ELSE IF ~outcome.ok THEN Throw(BackendError(url, outcome))
  ELSE IF outcome.body.t = "unreadable" THEN Throw(BodyError)
  ELSE Return(outcome.body)

\* doFetch(path, init) when fetch answers `outcome`, in a page where
\* getBackendBaseUrl gives its fallback.
doFetch(path, init, outcome) == FetchResult(UrlOf(DefaultBase, path), FALSE, outcome)

ValidationError ==
  Obj([message |-> Str(<<"Invalid input: question must be a non-empty string.">>),
       code |-> Str(<<"VALIDATION_ERROR">>)])

\* Mutant: the question is sent as typed.
askQuestion_Untrimmed(q) ==
  IF ~Truthy(q) \/ q.t # "string" \/ Len(Trim(q.s)) = 0
  THEN Throw(ValidationError)
  ELSE [k |-> "call", path |-> AskPath,
        init |-> buildRequestInit("POST", Obj([question |-> q]))]

\* askQuestion(question) up to the call of doFetch: the validation error, or
\* the request it hands to doFetch.
askQuestion(q) ==
  IF ~Truthy(q) \/ q.t # "string" \/ Len(Trim(q.s)) = 0
  THEN Throw(ValidationError)
  ELSE [k |-> "call", path |-> AskPath,
        init |-> buildRequestInit("POST", Obj([question |-> Str(Trim(q.s))]))]

\* getHistory() up to the call of doFetch.
getHistory == [k |-> "call", path |-> HistoryPath, init |-> buildRequestInit("GET", Undefined)]

\* The request a call puts on the network.
RequestOf(call) ==
  [method |-> call.init.method, url |-> UrlOf(DefaultBase, call.path), body |-> call.init.body]

\* Mutant: doFetch tries a second time.
Fetched_Twice(reqs, call) == reqs \o <<RequestOf(call), RequestOf(call)>>

\* resp = await fetch(url, init): the log of requests after doFetch ran for call
Fetched(reqs, call) == Append(reqs, RequestOf(call))

\* ------------------------------------- api client: getBackendBaseUrl, revisions
\* The file holds three revisions of the api client (lines 213-356, 358-549
\* and 551-747).  An environment env is [process |-> p, window |-> w]: each is
\* a JavaScript value, or Undeclared when the page has no such global (reading
\* it throws a ReferenceError, `typeof` of it is 'undefined').
Undeclared == [t |-> "undeclared"]
\* A property whose getter throws.
Throws == [t |-> "throws"]

ReferenceError(name) == Obj([name |-> Str(<<"ReferenceError">>), message |-> Str(<<name, " is not defined">>)])
TypeError == Obj([name |-> Str(<<"TypeError">>), message |-> Str(<<"Cannot read properties of undefined">>)])
SecurityError == Obj([name |-> Str(<<"SecurityError">>), message |-> Str(<<"Blocked">>)])

\* s.replace(/\/+$/, '') and s.replace(/\/*$/, ''): the slashes at the end of
\* the string are removed.
RECURSIVE StripSlashes(_)
StripSlashes(s) ==
  IF s = <<>> THEN s
  ELSE IF s[Len(s)] = "/" THEN StripSlashes(SubSeq(s, 1, Len(s) - 1)) ELSE s

\* The value of the expression `g` for a global g.
ReadGlobal(g, name) == IF g.t = "undeclared" THEN Throw(ReferenceError(name)) ELSE Return(g)

\* The value of `window.location`.
WindowLocation(w) ==
  IF w.t = "undeclared" THEN Throw(ReferenceError("window"))
  ELSE IF w.t \in {"undefined", "null"} THEN Throw(TypeError)
  ELSE IF Get(w, "location").t = "throws" THEN Throw(SecurityError)
  ELSE Return(Get(w, "location"))

\* typeof envUrl === 'string' && envUrl.trim().length > 0
NonBlankString(v) == v.t = "string" /\ Len(Trim(v.s)) > 0

\* getBackendBaseUrl, first revision (lines 220-247).
getBackendBaseUrl(env) ==
  LET process == ReadGlobal(env.process, "process") IN
  IF process.k = "throw" THEN process
  ELSE
    LET envUrl == Get(Get(process.v, "env"), "REACT_APP_BACKEND_URL")
        location == WindowLocation(env.window)
    IN IF Truthy(envUrl) /\ NonBlankString(envUrl)
       THEN Return(Str(StripSlashes(envUrl.s)))
       ELSE IF location.k = "return" /\ location.v.t = "object"
               /\ Truthy(Get(location.v, "origin"))
       THEN Return(Str(StripSlashes(Get(location.v, "origin").s)))
       ELSE Return(Str(DefaultBase))

\* (typeof process !== 'undefined' && process && process.env &&
\*  process.env.REACT_APP_BACKEND_URL) || ''
EnvUrlOrEmpty(p) ==
  IF p.t = "undeclared" \/ ~Truthy(p) \/ ~Truthy(Get(p, "env")) THEN Str(<<>>)
  ELSE Or(Get(Get(p, "env"), "REACT_APP_BACKEND_URL"), Str(<<>>))

DEFAULT_BACKEND == <<"https://vscode-internal-28123-beta.beta01.cloud.kavia.ai:3001">>

\* getBackendBaseUrl, second revision (lines 367-403).
getBackendBaseUrl_2(env) ==
  LET envUrl == EnvUrlOrEmpty(env.process)
  IN IF NonBlankString(envUrl)
     THEN Return(Str(StripSlashes(Trim(envUrl.s))))
     ELSE Return(Str(DEFAULT_BACKEND))

\* The branch of the third revision that reads window.location (lines 587-595).
FromLocation(loc) ==
  LET protocol == Get(loc, "protocol")
      hostname == Get(loc, "hostname")
      port == Get(loc, "port")
      origin == Get(loc, "origin")
  IN IF port = Str(<<"3000">>) THEN StripSlashes(protocol.s \o <<"//">> \o hostname.s \o <<":", "3001">>)
     ELSE IF Truthy(origin) THEN StripSlashes(origin.s)
     ELSE StripSlashes(protocol.s \o <<"//">> \o hostname.s
                       \o (IF Truthy(port) THEN <<":">> \o port.s ELSE <<>>))

\* getBackendBaseUrl, third revision (lines 561-607).
getBackendBaseUrl_3(env) ==
  LET envUrl == EnvUrlOrEmpty(env.process)
      w == env.window
  IN IF NonBlankString(envUrl) THEN Return(Str(StripSlashes(envUrl.s)))
     ELSE IF w.t = "undeclared" \/ ~Truthy(w) THEN Return(Str(DefaultBase))
     ELSE IF WindowLocation(w).k = "throw" THEN Return(Str(DefaultBase))
     ELSE IF ~Truthy(WindowLocation(w).v) THEN Return(Str(DefaultBase))
     ELSE Return(Str(FromLocation(WindowLocation(w).v)))

\* The three revisions, by number.
Revisions == {1, 2, 3}
BaseUrlOf(rev, env) ==
  CASE rev = 1 -> getBackendBaseUrl(env)
    [] rev = 2 -> getBackendBaseUrl_2(env)
    [] rev = 3 -> getBackendBaseUrl_3(env)

\* The paths of the later revisions end with a slash.
AskPath_3 == <<"/", "api/qa/ask", "/">>
HistoryPath_3 == <<"/", "api/qa/history", "/">>

\* `${safeBase}${normalizedPath}` of the later revisions (lines 629-634).
UrlOf_3(base, path) ==
  StripSlashes(base)
    \o (IF path # <<>> /\ Head(path) = "/" THEN <<>> ELSE <<"/">>)
    \o path
    \o (IF path # <<>> /\ path[Len(path)] = "/" THEN <<>> ELSE <<"/">>)

\* The url doFetch builds in revision rev from the base url.
UrlIn(rev, base, path) == IF rev = 1 THEN UrlOf(base, path) ELSE UrlOf_3(base, path)

\* typeof window !== 'undefined' (the hint of lines 654-656; none in revision 1)
Hinted(rev, env) == rev # 1 /\ env.window.t \notin {"undeclared", "undefined"}

\* doFetch(path, init) of revision rev in environment env: a throw of
\* getBackendBaseUrl leaves doFetch before fetch is called.
doFetchIn(rev, env, path, init, outcome) ==
  LET base == BaseUrlOf(rev, env) IN
  IF base.k = "throw" THEN base
  ELSE FetchResult(UrlIn(rev, base.v.s, path), Hinted(rev, env), outcome)

\* The requests doFetch hands to fetch: one, unless getBackendBaseUrl threw.
RequestsIn(rev, env, path, init) ==
  LET base == BaseUrlOf(rev, env) IN
  IF base.k = "throw" THEN <<>>
  ELSE <<[method |-> init.method, url |-> UrlIn(rev, base.v.s, path), body |-> init.body]>>

\* askQuestion(question) of revision rev up to the call of doFetch (lines
\* 318-339, 708-730): the revisions differ in the path.
askQuestionIn(rev, q) ==
  LET call == askQuestion(q) IN
  IF rev = 1 \/ call.k = "throw" THEN call
  ELSE [k |-> "call", path |-> AskPath_3, init |-> call.init]

\* getHistory() of revision rev up to the call of doFetch.
getHistoryIn(rev) ==
  IF rev = 1 THEN getHistory
  ELSE [k |-> "call", path |-> HistoryPath_3, init |-> getHistory.init]

\* ------------------------------------------------------ App: readableError
\* Mutant: the message is preferred to the detail.
readableError_MessageFirst(e) ==
  IF ~Truthy(e) THEN Str(<<"Unknown error">>)
  ELSE IF Truthy(Get(e, "message")) THEN Get(e, "message")
  ELSE IF Truthy(Get(e, "detail"))
       THEN (IF Get(e, "detail").t = "string" THEN Get(e, "detail")
             ELSE Str(Stringify(Get(e, "detail"))))
  ELSE Str(Stringify(e))

\* Mutant: a detail that is no string is shown as it is.
readableError_DetailAsIs(e) ==
  IF ~Truthy(e) THEN Str(<<"Unknown error">>)
  ELSE IF Truthy(Get(e, "detail")) THEN Get(e, "detail")
  ELSE IF Truthy(Get(e, "message")) THEN Get(e, "message")
  ELSE Str(Stringify(e))

readableError(e) ==
  IF ~Truthy(e) THEN Str(<<"Unknown error">>)
  ELSE IF Truthy(Get(e, "detail"))
       THEN (IF Get(e, "detail").t = "string" THEN Get(e, "detail")
             ELSE Str(Stringify(Get(e, "detail"))))
  ELSE IF Truthy(Get(e, "message")) THEN Get(e, "message")
  ELSE Str(Stringify(e))

\* ------------------------------------------------------------ environment
\* The texts the user types: empty, whitespace only, and a question with
\* whitespace around it.
Texts == {<<>>, <<" ">>, <<" ", "a", " ">>}

JsonType == Str(<<"application/json">>)

\* QARecord: what the backend creates for a question.
QARecord(id, q) ==
  Obj([id |-> Num(id), question |-> Str(q), answer |-> Str(<<"answer">>)])

\* The failing answers of fetch: a transport failure and non-2xx responses.
ErrorOutcomes ==
  { FetchRejected,
    Response(500, "Internal Server Error", JsonType, Obj([detail |-> Str(<<"boom">>)])),
    Response(503, "Service Unavailable", Null, Str(<<>>)) }

\* The other answers to GET /api/qa/history: a success that is not an array
\* (a JSON object, plain text), or a failure.
OtherHistoryOutcomes(d) ==
  { Response(200, "OK", JsonType, Obj([count |-> Num(Len(d))])),
    Response(200, "OK", Str(<<"text/html">>), Str(<<"o", "k">>)) } \cup ErrorOutcomes

NoOutcome == [net |-> "pending"]
None == [k |-> "none"]

\* The records the backend holds when the page is opened, newest first.
RECURSIVE OldRecords(_)
OldRecords(n) ==
  IF n = 0 THEN <<>> ELSE <<QARecord(n, <<"o", "l", "d">>)>> \o OldRecords(n - 1)

\* ------------------------------------------------------------- App (view)
\* history.map(...) in the render: a history that is no array of objects
\* throws there, and React tears the component down.
Renders(h) ==
  /\ h.t = "array"
  /\ \A i \in 1..Len(h.a) : h.a[i].t \notin {"undefined", "null"}

Init ==
  /\ theme = "light"
  /\ question = <<>>
  /\ history = Arr(<<>>)
  /\ loading = FALSE
  /\ error = Null
  /\ activeRecord = Null
  /\ mounted = TRUE
  /\ histReq = [st |-> "sent", outcome |-> NoOutcome]
  /\ subs = <<>>
  /\ requests = Fetched(<<>>, getHistory)
  /\ db \in {<<>>, OldRecords(MaxOld)}
  /\ ev = "mount"
  /\ out = NoOutcome
  /\ res = None

\* toggleTheme
ToggleTheme ==
  /\ mounted
  /\ theme' = (IF theme = "light" THEN "dark" ELSE "light")
  /\ ev' = "toggleTheme"
  /\ out' = NoOutcome
  /\ res' = None
  /\ UNCHANGED <<question, history, loading, error, activeRecord,
                 mounted, histReq, subs, requests, db>>

\* onChange of the question input, which is disabled while loading.
SetQuestion(s) ==
  /\ mounted
  /\ ~loading
  /\ s # question
  /\ question' = s
  /\ ev' = "setQuestion"
  /\ out' = NoOutcome
  /\ res' = None
  /\ UNCHANGED <<theme, history, loading, error, activeRecord,
                 mounted, histReq, subs, requests, db>>

\* handleSubmit with a blank question: up to `if (!q) return`.
SubmitBlank ==
  /\ mounted
  /\ Trim(question) = <<>>
  /\ error' = Null
  /\ ev' = "submitBlank"
  /\ out' = NoOutcome
  /\ res' = None
  /\ UNCHANGED <<theme, question, history, loading, activeRecord,
                 mounted, histReq, subs, requests, db>>

\* Mutant: the flag is not set before the call.
LoadingWhileAsking_NotSet(l) == l

\* setLoading(true) before `await askQuestion(q)`
LoadingWhileAsking(l) == TRUE

\* handleSubmit with a question: up to `await askQuestion(q)`.  The handler
\* is a closure over the state of the render it was created in.
SubmitQuestion ==
  /\ mounted
  /\ Trim(question) # <<>>
  /\ Len(requests) <= MaxSubmits
  /\ LET q == Trim(question)
         call == askQuestion(Str(q))
     IN IF call.k = "throw"
        THEN /\ error' = readableError(call.e)
             /\ loading' = FALSE
             /\ UNCHANGED <<subs, requests>>
        ELSE /\ error' = Null
             /\ loading' = LoadingWhileAsking(loading)
             /\ subs' = Append(subs, [q |-> q, st |-> "sent", outcome |-> NoOutcome,
                                      history |-> history,
                                      activeRecord |-> activeRecord,
                                      question |-> question])
             /\ requests' = Fetched(requests, call)
  /\ ev' = "submit"
  /\ out' = NoOutcome
  /\ res' = None
  /\ UNCHANGED <<theme, question, history, activeRecord, mounted, histReq, db>>

\* The backend answers the history request with the records it holds.
AnswerHistory ==
  /\ histReq.st = "sent"
  /\ histReq' = [st |-> "answered", outcome |-> Response(200, "OK", JsonType, Arr(db))]
  /\ UNCHANGED <<theme, question, history, loading, error, activeRecord,
                 mounted, subs, requests, db, ev, out, res>>

\* The backend answers submission i with the record it creates.
AnswerAsk(i) ==
  /\ subs[i].st = "sent"
  /\ LET r == QARecord(Len(db) + 1, subs[i].q)
     IN /\ db' = <<r>> \o db
        /\ subs' = [subs EXCEPT ![i].st = "answered",
                                ![i].outcome = Response(200, "OK", JsonType, r)]
  /\ UNCHANGED <<theme, question, history, loading, error, activeRecord,
                 mounted, histReq, requests, ev, out, res>>

\* What fetch gives for a request in state req: the backend's answer, or (the
\* request still unanswered) one of the other outcomes.
FetchOutcomes(req, others) ==
  IF req.st = "answered" THEN {req.outcome} ELSE others

\* Mutant: the list is stored oldest first.
HistoryAfterFetch_Reversed(h) ==
  IF h.t = "array" THEN Arr([i \in 1..Len(h.a) |-> h.a[Len(h.a) + 1 - i]])
  ELSE Or(h, Arr(<<>>))

\* setHistory(h || [])
HistoryAfterFetch(h) == Or(h, Arr(<<>>))

\* Mutant: an empty history resets the active record.
ActiveAfterFetch_ResetsOnEmpty(h, active) ==
  IF LengthPositive(Or(h, Arr(<<>>))) THEN Index0(h) ELSE Null

\* if ((h || []).length > 0) setActiveRecord(h[0])
ActiveAfterFetch(h, active) ==
  IF LengthPositive(Or(h, Arr(<<>>))) THEN Index0(h) ELSE active

\* Mutant: the result is applied whether or not the component is still there.
StillMounted_Ignored(m) == TRUE

\* if (mounted) { ... } in the effect, with the flag the cleanup clears
StillMounted(m) == m

\* The effect's async function after `await getHistory()`.
HistoryDone ==
  /\ histReq.st # "done"
  /\ histReq' = [st |-> "done", outcome |-> NoOutcome]
  /\ \E o \in FetchOutcomes(histReq, OtherHistoryOutcomes(db)) :
     \E r \in {doFetch(getHistory.path, getHistory.init, o)} :
          /\ out' = o
          /\ res' = r
          /\ IF ~StillMounted(mounted)
             THEN /\ ev' = "historyDiscarded"
                  /\ UNCHANGED <<history, activeRecord, error, mounted>>
             ELSE IF r.k = "return"
             THEN /\ history' = HistoryAfterFetch(r.v)
                  /\ activeRecord' = ActiveAfterFetch(r.v, activeRecord)
                  /\ mounted' = Renders(history')
                  /\ ev' = "historyLoaded"
                  /\ UNCHANGED error
             ELSE /\ error' = readableError(r.e)
                  /\ ev' = "historyFailed"
                  /\ UNCHANGED <<history, activeRecord, mounted>>
  /\ UNCHANGED <<theme, question, loading, subs, requests, db>>

RemoveAt(s, i) == SubSeq(s, 1, i - 1) \o SubSeq(s, i + 1, Len(s))

\* Mutant: the record is appended instead of prepended.
NextHistory_Appends(record, hist) == Arr(hist.a \o <<record>>)

\* const next = [record, ...history], with the history of the closure
NextHistory(record, hist) == Arr(<<record>> \o hist.a)

\* Mutant: the input is cleared on failure too.
QuestionAfterSubmit_AlwaysClears(r, q) == <<>>

\* setQuestion('') in the try block
QuestionAfterSubmit(r, q) == IF r.k = "return" THEN <<>> ELSE q

\* Mutant: setLoading(false) sits in the try block, not in finally.
LoadingAfterSubmit_OnlyOnSuccess(r) == r.k = "throw"

\* Mutant: the flag is never cleared.
LoadingAfterSubmit_Kept(r) == TRUE

\* finally { setLoading(false) }
LoadingAfterSubmit(r) == FALSE

\* handleSubmit after `await askQuestion(q)`, for submission i.
SubmitDone(i) ==
  /\ subs' = RemoveAt(subs, i)
  /\ \E o \in FetchOutcomes(subs[i], ErrorOutcomes) :
     \E r \in {doFetch(AskPath, buildRequestInit("POST", Obj([question |-> Str(subs[i].q)])), o)} :
          /\ out' = o
          /\ res' = r
          /\ IF ~mounted
             THEN /\ ev' = "submitDiscarded"
                  /\ UNCHANGED <<history, activeRecord, question, error, loading, mounted>>
             ELSE /\ question' = QuestionAfterSubmit(r, question)
                  /\ loading' = LoadingAfterSubmit(r)
                  /\ IF r.k = "return"
                     THEN /\ history' = NextHistory(r.v, subs[i].history)
                          /\ activeRecord' = r.v
                          /\ mounted' = Renders(history')
                          /\ ev' = "submitSucceeded"
                          /\ UNCHANGED error
                     ELSE /\ error' = readableError(r.e)
                          /\ ev' = "submitFailed"
                          /\ UNCHANGED <<history, activeRecord, mounted>>
  /\ UNCHANGED <<theme, histReq, requests, db>>

\* Mutant: every item selects the newest record.
SelectedItem_AlwaysFirst(hist, i) == hist.a[1]

\* setActiveRecord(item) for the item rendered at position i
SelectedItem(hist, i) == hist.a[i]

\* onClick / onKeyDown (Enter, Space) of history item i.
Select(i) ==
  /\ mounted
  /\ activeRecord' = SelectedItem(history, i)
  /\ ev' = "select"
  /\ out' = NoOutcome
  /\ res' = [k |-> "select", i |-> i]
  /\ UNCHANGED <<theme, question, history, loading, error,
                 mounted, histReq, subs, requests, db>>

\* The component is torn down: the effect's cleanup sets mounted = false.
Unmount ==
  /\ mounted
  /\ mounted' = FALSE
  /\ ev' = "unmount"
  /\ out' = NoOutcome
  /\ res' = None
  /\ UNCHANGED <<theme, question, history, loading, error, activeRecord,
                 histReq, subs, requests, db>>

Next ==
  \/ ToggleTheme
  \/ \E s \in Texts : SetQuestion(s)
  \/ SubmitBlank
  \/ SubmitQuestion
  \/ AnswerHistory
  \/ \E i \in 1..Len(subs) : AnswerAsk(i)
  \/ HistoryDone
  \/ \E i \in 1..Len(subs) : SubmitDone(i)
  \/ \E i \in 1..Length(history) : Select(i)
  \/ Unmount

Spec == Init /\ [][Next]_vars

\* Every askQuestion call completes: a handleSubmit waiting at its await is
\* resumed.
FairSpec == Spec /\ WF_vars(\E i \in 1..Len(subs) : SubmitDone(i))

\* ------------------------------------------- submits through the form only
\* The submit button is disabled while loading or while the trimmed question
\* is empty (line 165), and a form whose submit button is disabled is not
\* submitted: handleSubmit runs only when the control is enabled.
SubmitEnabled == ~loading /\ Trim(question) # <<>>

FormSubmit == SubmitEnabled /\ SubmitQuestion

FormNext ==
  \/ ToggleTheme
  \/ \E s \in Texts : SetQuestion(s)
  \/ FormSubmit
  \/ AnswerHistory
  \/ \E i \in 1..Len(subs) : AnswerAsk(i)
  \/ HistoryDone
  \/ \E i \in 1..Len(subs) : SubmitDone(i)
  \/ \E i \in 1..Length(history) : Select(i)
  \/ Unmount

FormSpec == Init /\ [][FormNext]_vars

\* ------------------------------------------------- the api client on its own
\* One call of the api client, or of readableError, in a freshly loaded page:
\* ev is the call [fn, rev, env, arg], out the answer of fetch, res the result,
\* requests what the call handed to fetch, error what setError(readableError(e))
\* shows.

\* Values of REACT_APP_BACKEND_URL: unset, empty, blank, not a string, and
\* urls with slashes and whitespace around them.
ConfiguredUrls ==
  { <<"http://api">>, <<"http://api", "/">>, <<"http://api", "/", "/">>,
    <<"http://api", "/", " ">>, <<" ", "http://api">> }
EnvValues ==
  {Undefined, Str(<<>>), Str(<<" ">>), Num(5)} \cup {Str(u) : u \in ConfiguredUrls}

ProcessWith(v) == Obj([env |-> Obj([REACT_APP_BACKEND_URL |-> v])])
Processes ==
  {Undeclared, Undefined, Obj([title |-> Str(<<"browser">>)])}
    \cup {ProcessWith(v) : v \in EnvValues}

Location(protocol, hostname, port, origin) ==
  Obj([protocol |-> Str(<<protocol>>), hostname |-> Str(<<hostname>>),
       port |-> Str(port), origin |-> origin])
Locations ==
  { Location("http:", "app", <<"3000">>, Str(<<"http:", "//", "app", ":", "3000">>)),
    Location("https:", "app", <<>>, Str(<<"https:", "//", "app">>)),
    Location("http:", "app", <<"8080">>, Undefined) }
Windows ==
  {Undeclared, Undefined, Obj([location |-> Undefined]), Obj([location |-> Throws])}
    \cup {Obj([location |-> l]) : l \in Locations}

Envs == [process : Processes, window : Windows]

\* The pages in which the api is called: nothing configured and no window (a
\* test run), a configured url, and a browser without a `process` global.
ApiEnvs ==
  { [process |-> ProcessWith(Undefined), window |-> Undeclared],
    [process |-> ProcessWith(Str(<<"http://api", "/">>)),
     window |-> Obj([location |-> Location("https:", "app", <<>>, Str(<<"https:", "//", "app">>))])],
    [process |-> Undeclared,
     window |-> Obj([location |-> Location("http:", "app", <<"3000">>,
                                           Str(<<"http:", "//", "app", ":", "3000">>))])] }

\* The revisions of askQuestion, getHistory and doFetch that are modelled.
ApiRevisions == {1, 3}

\* Arguments of askQuestion: not strings, blank strings, questions.
Questions ==
  {Undefined, Null, Num(0), Num(7), Arr(<<>>), Obj([question |-> Str(<<"a">>)])}
    \cup {Str(t) : t \in Texts \cup {<<"a">>, <<"a", " ", "b">>}}

\* Answers of fetch: a rejection, non-2xx and 2xx responses, with JSON, text,
\* empty and unreadable bodies.
ApiOutcomes ==
  { FetchRejected,
    Response(500, "Internal Server Error", JsonType, Obj([detail |-> Str(<<"boom">>)])),
    Response(400, "Bad Request", JsonType, Obj([message |-> Str(<<"bad">>)])),
    Response(422, "Unprocessable Entity", JsonType,
             Obj([detail |-> Arr(<<Obj([message |-> Str(<<"required">>)])>>)])),
    Response(500, "Internal Server Error", JsonType, Obj([code |-> Num(7)])),
    Response(500, "Internal Server Error", JsonType,
             Obj([detail |-> Str(<<>>), message |-> Str(<<"m">>)])),
    Response(500, "Internal Server Error", JsonType, Null),
    Response(500, "Internal Server Error", JsonType, Unreadable),
    Response(503, "Service Unavailable", Null, Str(<<>>)),
    Response(502, "Bad Gateway", Str(<<"text/html">>), Str(<<"<html>">>)),
    Response(502, "Bad Gateway", Str(<<"text/html">>), Unreadable),
    Response(200, "OK", JsonType, QARecord(1, <<"a">>)),
    Response(200, "OK", Str(<<"application/json", "; charset=utf-8">>), Arr(<<QARecord(1, <<"a">>)>>)),
    Response(200, "OK", Str(<<"text/plain">>), Str(<<"o", "k">>)),
    Response(204, "No Content", Null, Str(<<>>)),
    Response(200, "OK", JsonType, Unreadable),
    Response(200, "OK", Str(<<"text/plain">>), Unreadable) }

\* The errors the api client raises, and values that are no Error objects.
RaisedErrors ==
  {ValidationError}
    \cup {r.e : r \in {x \in {doFetchIn(rev, env, AskPath, getHistory.init, o) :
                                  rev \in ApiRevisions, env \in ApiEnvs, o \in ApiOutcomes} :
                          x.k = "throw"}}
ErrorValues == RaisedErrors \cup {Undefined, Null, Obj([code |-> Num(7)])}

ApiInit ==
  /\ theme = "light"
  /\ question = <<>>
  /\ history = Arr(<<>>)
  /\ loading = FALSE
  /\ error = Null
  /\ activeRecord = Null
  /\ mounted = TRUE
  /\ histReq = [st |-> "done", outcome |-> NoOutcome]
  /\ subs = <<>>
  /\ requests = <<>>
  /\ db = <<>>
  /\ ev = [fn |-> "load"]
  /\ out = NoOutcome
  /\ res = None

\* getBackendBaseUrl() of revision rev in environment env.
CallGetBackendBaseUrl(rev, env) ==
  /\ ev.fn = "load"
  /\ ev' = [fn |-> "getBackendBaseUrl", rev |-> rev, env |-> env, arg |-> Undefined]
  /\ out' = NoOutcome
  /\ res' = BaseUrlOf(rev, env)
  /\ UNCHANGED <<theme, question, history, loading, error, activeRecord,
                 mounted, histReq, subs, requests, db>>

\* The component calls getBackendBaseUrl() while it renders (line 56): the api
\* is called only in a page where that returns.
Renderable(rev, env) == BaseUrlOf(rev, env).k = "return"

\* askQuestion(q) of revision rev, with fetch (if called) answering o.
CallAskQuestion(rev, env, q, o) ==
  /\ ev.fn = "load"
  /\ Renderable(rev, env)
  /\ ev' = [fn |-> "askQuestion", rev |-> rev, env |-> env, arg |-> q]
  /\ LET call == askQuestionIn(rev, q)
     IN IF call.k = "throw"
        THEN /\ res' = call
             /\ out' = NoOutcome
             /\ UNCHANGED requests
        ELSE /\ requests' = requests \o RequestsIn(rev, env, call.path, call.init)
             /\ out' = o
             /\ res' = doFetchIn(rev, env, call.path, call.init, o)
  /\ UNCHANGED <<theme, question, history, loading, error, activeRecord,
                 mounted, histReq, subs, db>>

\* getHistory() of revision rev, with fetch answering o.
CallGetHistory(rev, env, o) ==
  /\ ev.fn = "load"
  /\ Renderable(rev, env)
  /\ ev' = [fn |-> "getHistory", rev |-> rev, env |-> env, arg |-> Undefined]
  /\ LET call == getHistoryIn(rev)
     IN /\ requests' = requests \o RequestsIn(rev, env, call.path, call.init)
        /\ out' = o
        /\ res' = doFetchIn(rev, env, call.path, call.init, o)
  /\ UNCHANGED <<theme, question, history, loading, error, activeRecord,
                 mounted, histReq, subs, db>>

\* setError(readableError(e)) for a caught value e (lines 41 and 84).
CallReadableError(e) ==
  /\ ev.fn = "load"
  /\ ev' = [fn |-> "readableError", rev |-> 1, env |-> Undefined, arg |-> e]
  /\ out' = NoOutcome
  /\ res' = Return(readableError(e))
  /\ error' = res'.v
  /\ UNCHANGED <<theme, question, history, loading, activeRecord,
                 mounted, histReq, subs, requests, db>>

ApiNext ==
  \/ \E rev \in Revisions, env \in Envs : CallGetBackendBaseUrl(rev, env)
  \/ \E rev \in ApiRevisions, env \in ApiEnvs, q \in Questions, o \in ApiOutcomes :
       CallAskQuestion(rev, env, q, o)
  \/ \E rev \in ApiRevisions, env \in ApiEnvs, o \in ApiOutcomes : CallGetHistory(rev, env, o)
  \/ \E e \in ErrorValues : CallReadableError(e)

ApiSpec == ApiInit /\ [][ApiNext]_vars

\* ------------------------------------------------------------------ claims
\* The step is the completion of the history fetch / of a submission.
HistoryCompletes == histReq.st # "done" /\ histReq'.st = "done"
SubmissionCompletes == Len(subs') < Len(subs)

IsMember(x, hist) == \E i \in 1..Len(hist.a) : hist.a[i] = x

\* C1: right after a submission completes successfully with record r, r is
\* the first element of history, r is the active record and the input is empty.
C1_SuccessPrependsAndActivates ==
  (ev = "submitSucceeded") =>
    /\ history.t = "array"
    /\ Len(history.a) >= 1
    /\ history.a[1] = res.v
    /\ activeRecord = res.v
    /\ question = <<>>

\* A successful submission whose record was put in front of an older one.
C1_Witness ==
  /\ ev = "submitSucceeded"
  /\ Len(history.a) >= 2
  /\ history.a[1] = res.v

\* C2: a submit with a blank (empty or whitespace-only) question issues no
\* request and leaves theme, question, history, loading, error and
\* activeRecord unchanged, also when error was not null.
C2_BlankSubmitChangesNothing ==
  [][(ev' = "submitBlank") =>
       /\ UNCHANGED <<theme, question, history, loading, error, activeRecord>>
       /\ UNCHANGED requests]_vars

\* C3: every change of history is the prepend of the one record just returned
\* to the history held immediately before, or the replacement by the result
\* of the history fetch; a successful submission removes no entry.
C3_HistoryOnlyPrependsOrReplaces ==
  [][(history' # history) =>
       \/ /\ HistoryCompletes
          /\ res'.k = "return"
          /\ history' = (IF Truthy(res'.v) THEN res'.v ELSE Arr(<<>>))
       \/ /\ SubmissionCompletes
          /\ res'.k = "return"
          /\ history' = Arr(<<res'.v>> \o history.a)]_vars

\* C4: the active record is null or an element of the history sequence.
C4_ActiveIsNullOrInHistory ==
  (history.t = "array") => (activeRecord = Null \/ IsMember(activeRecord, history))

\* C5: no completion of a submission leaves loading = true, and while the
\* component is mounted loading = true is always followed by loading = false.
C5_LoadingIsCleared ==
  /\ [][(SubmissionCompletes /\ mounted) => ~loading']_vars
  /\ ((mounted /\ loading) ~> (~loading \/ ~mounted))

\* A submission failed and loading is false again.
C5_Witness ==
  /\ ev = "submitFailed"
  /\ mounted
  /\ ~loading
  /\ error = Str(<<"Network error while contacting backend">>)

\* C6 (as stated): after a failed submission history, activeRecord and the
\* question text equal their values at the time of the submit, error is set
\* and loading is false.
C6_FailureRestoresSubmitTimeState ==
  [][\A i \in 1..Len(subs) :
       (ev' = "submitFailed" /\ mounted /\ subs' = RemoveAt(subs, i)) =>
         /\ history' = subs[i].history
         /\ activeRecord' = subs[i].activeRecord
         /\ question' = subs[i].question
         /\ Truthy(error')
         /\ ~loading']_vars

\* C6 (amended): the failure of a submission leaves history, activeRecord and
\* the question text as they were immediately before it; it sets error to a
\* non-empty string and loading to false.
C6_FailureChangesOnlyErrorAndLoading ==
  [][(SubmissionCompletes /\ mounted /\ res'.k = "throw") =>
       /\ UNCHANGED <<theme, history, activeRecord, question>>
       /\ error'.t = "string"
       /\ Truthy(error')
       /\ ~loading']_vars

\* A submission failed while the input still held the submitted text, after
\* the history fetch had changed history.
C6_Witness ==
  /\ ev = "submitFailed"
  /\ Trim(question) # <<>>
  /\ history # Arr(<<>>)
  /\ Truthy(error)
  /\ ~loading

\* C7: when the history fetch throws or resolves with a value that is no
\* array, history remains the (empty) sequence it was, an error message is
\* set and the view can still be rendered.
C7_BadHistoryIsRejected ==
  [][(HistoryCompletes /\ mounted /\ (res'.k = "throw" \/ res'.v.t # "array")) =>
       /\ history' = history
       /\ Renders(history')
       /\ error' # Null]_vars

\* C8: when the history fetch completes with a sequence h while mounted,
\* history becomes h; activeRecord becomes h[0] if h is non-empty and is
\* unchanged if h is empty.
C8_HistoryLoadReplaces ==
  [][(HistoryCompletes /\ mounted /\ res'.k = "return" /\ res'.v.t = "array") =>
       /\ history' = res'.v
       /\ activeRecord' = (IF Len(res'.v.a) > 0 THEN res'.v.a[1] ELSE activeRecord)]_vars

\* The history fetch loaded a non-empty history, after a submission had made
\* another record the active one.
C8_Witness ==
  /\ ev = "historyLoaded"
  /\ history.t = "array"
  /\ Len(history.a) >= 2
  /\ activeRecord = history.a[1]
  /\ res.v = history

\* The detail of a non-2xx response with a JSON body {detail: d}, d a
\* non-empty string.
HasStringDetail(o) ==
  /\ o.net = "response"
  /\ ~(o.status >= 200 /\ o.status <= 299)
  /\ o.contentType = JsonType
  /\ o.body.t = "object"
  /\ "detail" \in DOMAIN o.body.f
  /\ o.body.f.detail.t = "string"
  /\ o.body.f.detail.s # <<>>

\* C9: after a submission or the history fetch failed with a non-2xx response
\* whose JSON body has a non-empty string detail d, the error shown is d.
C9_ErrorShowsBackendDetail ==
  (ev \in {"submitFailed", "historyFailed"} /\ HasStringDetail(out)) =>
    error = out.body.f.detail

\* A submission failed with HTTP 500 {"detail": "boom"}.
C9_Witness ==
  /\ ev = "submitFailed"
  /\ HasStringDetail(out)
  /\ out.status = 500
  /\ error = Str(<<"boom">>)

\* C10: selecting a history entry makes it the active record, issues no
\* request and leaves history, question, loading and error unchanged.
C10_SelectOnlySetsActive ==
  [][(ev' = "select" /\ res' # res) =>
       /\ activeRecord' = history.a[res'.i]
       /\ UNCHANGED <<history, question, loading, error, theme>>
       /\ UNCHANGED requests]_vars

\* The second entry of the history was selected.
C10_Witness ==
  /\ ev = "select"
  /\ res.i = 2
  /\ activeRecord = history.a[2]
  /\ activeRecord # history.a[1]

\* C11: when the component was torn down before the history fetch completes,
\* the completion (success or failure) changes no view-state variable.
C11_LateHistoryIsDiscarded ==
  [][(HistoryCompletes /\ ~mounted) =>
       UNCHANGED <<theme, question, history, loading, error, activeRecord>>]_vars

\* The fetch returned a non-empty history to a component torn down before,
\* and the history is still the empty one.
C11_Witness ==
  /\ ev = "historyDiscarded"
  /\ res.k = "return"
  /\ res.v.t = "array"
  /\ Len(res.v.a) > 0
  /\ history = Arr(<<>>)
  /\ activeRecord = Null

\* C12: askQuestion with an empty, whitespace-only or non-string question
\* fails with code VALIDATION_ERROR and hands nothing to fetch; with any other
\* question it hands exactly one POST to fetch, whose body is the JSON text
\* {"question": <the question trimmed>}.
C12_AskQuestionValidatesOrPostsOnce ==
  (ev.fn = "askQuestion") =>
    IF ev.arg.t # "string" \/ Trim(ev.arg.s) = <<>>
    THEN /\ res.k = "throw"
         /\ Get(res.e, "code") = Str(<<"VALIDATION_ERROR">>)
         /\ requests = <<>>
    ELSE /\ Len(requests) = 1
         /\ requests[1].method = "POST"
         /\ requests[1].body =
              Str(<<"{", "\"", "question", "\"", ":", "\"">> \o Trim(ev.arg.s) \o <<"\"", "}">>)

\* The later revision was called with " a " and posted {"question":"a"}.
C12_Witness ==
  /\ ev.fn = "askQuestion"
  /\ ev.rev = 3
  /\ ev.arg = Str(<<" ", "a", " ">>)
  /\ Len(requests) = 1
  /\ requests[1].method = "POST"
  /\ requests[1].body = Str(<<"{", "\"", "question", "\"", ":", "\"", "a", "\"", "}">>)

\* The value of REACT_APP_BACKEND_URL in env (undefined when there is none).
ConfiguredUrl(env) == Get(Get(env.process, "env"), "REACT_APP_BACKEND_URL")

\* The hardcoded fallback of a revision.
FallbackOf(rev) == IF rev = 2 THEN DEFAULT_BACKEND ELSE DefaultBase

\* C13: getBackendBaseUrl never throws and returns a string in every
\* environment; when reading window.location fails (and no url is configured)
\* the result is the fallback.
C13_BaseUrlNeverThrows ==
  (ev.fn = "getBackendBaseUrl") =>
    /\ res.k = "return"
    /\ res.v.t = "string"
    /\ (WindowLocation(ev.env.window).k = "throw" /\ ~NonBlankString(ConfiguredUrl(ev.env)))
         => res.v = Str(FallbackOf(ev.rev))

\* C14: with a non-blank REACT_APP_BACKEND_URL, getBackendBaseUrl returns that
\* value with the whitespace around it and all trailing slashes removed,
\* whatever window.location is; the result does not end with a slash.
C14_ConfiguredUrlIsTrimmedAndStripped ==
  (ev.fn = "getBackendBaseUrl" /\ NonBlankString(ConfiguredUrl(ev.env))) =>
    /\ res = Return(Str(StripSlashes(Trim(ConfiguredUrl(ev.env).s))))
    /\ res.v.s[Len(res.v.s)] # "/"

\* The JSON text {"question": q}.
QuestionBody(q) == Str(<<"{", "\"", "question", "\"", ":", "\"">> \o q \o <<"\"", "}">>)

\* C15: there is no automatic retry.  The only GET is the one issued at
\* mount; the request log changes only in a submit of a non-blank question,
\* by exactly one POST of that question; no completion of a call, successful
\* or failed, issues a request.
C15_NoAutomaticRetry ==
  /\ [](/\ Len(requests) >= 1
        /\ requests[1].method = "GET"
        /\ \A i \in 2..Len(requests) : requests[i].method = "POST")
  /\ [][ /\ (requests' # requests) =>
              /\ ev' = "submit"
              /\ Trim(question) # <<>>
              /\ Len(requests') = Len(requests) + 1
              /\ SubSeq(requests', 1, Len(requests)) = requests
              /\ requests'[Len(requests')].body = QuestionBody(Trim(question))
         /\ (Len(subs') > Len(subs)) => (Len(requests') = Len(requests) + 1)
         /\ (HistoryCompletes \/ SubmissionCompletes) => (requests' = requests) ]_vars

\* The history fetch and a submission have both failed, and the log holds
\* the one GET and the one POST.
C15_Witness ==
  /\ ev = "submitFailed"
  /\ histReq.st = "done"
  /\ history = Arr(<<>>)
  /\ subs = <<>>
  /\ Len(requests) = 2
  /\ requests[1].method = "GET"
  /\ requests[2].method = "POST"

\* C16: the history sequence is ordered newest first: the backend numbers the
\* records in the order it creates them, and the ids decrease along history.
C16_HistoryIsNewestFirst ==
  (history.t = "array") =>
    \A i \in 1..(Len(history.a) - 1) : history.a[i].f.id.n > history.a[i + 1].f.id.n

\* A submission completed ahead of an earlier one that the backend has
\* already answered, and put its record in front of the loaded history.
C16_Witness ==
  /\ ev = "submitSucceeded"
  /\ history.t = "array"
  /\ Len(history.a) >= 2
  /\ Len(subs) = 1
  /\ subs[1].st = "answered"
  /\ subs[1].outcome.body.f.id.n < history.a[1].f.id.n

\* C17: doFetch turns every answer of fetch into one of: for a rejection, an
\* error with a message, the cause and the url, and no status; for a non-2xx
\* response, an error with status, url and detail (of a JSON body: its
\* detail, else its message, else the body; else the text); for a 2xx
\* response, the parsed JSON or the text as the value returned.
C17_DoFetchClassifiesEveryOutcome ==
  (ev.fn \in {"askQuestion", "getHistory"} /\ out # NoOutcome) =>
    \/ /\ out.net = "rejected"
       /\ res.k = "throw"
       /\ Get(res.e, "message").t = "string"
       /\ Get(res.e, "cause") = FetchCause
       /\ Get(res.e, "url") = Str(requests[1].url)
       /\ Get(res.e, "status") = Undefined
    \/ /\ out.net = "response"
       /\ ~(out.status >= 200 /\ out.status <= 299)
       /\ res.k = "throw"
       /\ Get(res.e, "status") = Num(out.status)
       /\ Get(res.e, "url") = Str(requests[1].url)
       /\ Get(res.e, "detail") =
            (IF out.body.t = "unreadable" THEN Undefined
             ELSE IF IsJson(out)
                  THEN (IF Truthy(Get(out.body, "detail")) THEN Get(out.body, "detail")
                        ELSE IF Truthy(Get(out.body, "message")) THEN Get(out.body, "message")
                        ELSE out.body)
                  ELSE out.body)
    \/ /\ out.net = "response"
       /\ out.status >= 200 /\ out.status <= 299
       /\ res.k = "return"
       /\ res.v = out.body

C19_OneSubmissionInFlight ==
  /\ Len(subs) <= 1
  /\ (mounted /\ Len(subs) = 1) => loading

\* A second question was submitted after the first call had completed.
C19_Witness ==
  /\ mounted
  /\ loading
  /\ Len(subs) = 1
  /\ Len(requests) = 3
  /\ activeRecord # Null

\* C20: the record a successful submission has just put in history is an
\* element of history after the next event too (whenever history is a
\* sequence), so it is never removed.
C20_SubmittedRecordStays ==
  [][(ev = "submitSucceeded" /\ history.t = "array" /\ IsMember(res.v, history)
        /\ history'.t = "array")
       => IsMember(res.v, history')]_vars

\* C21 (as stated): in every state of the mounted component loading is true
\* exactly when at least one askQuestion call is in flight.
C21_LoadingIffInFlight ==
  mounted => (loading <=> Len(subs) > 0)

\* C21 (amended): while the component is mounted, loading = true implies that
\* a call is in flight (so loading is false when none is); loading becomes
\* true when a non-blank submit starts and false when any call completes, and
\* nothing else (the history fetch, a selection) changes it.  A call can be
\* in flight with loading = false: after another call has completed.
C21_LoadingFollowsLastSubmitOrCompletion ==
  /\ [](mounted => (loading => Len(subs) > 0))
  /\ [][ /\ (Len(subs') > Len(subs)) => loading'
         /\ (SubmissionCompletes /\ mounted) => ~loading'
         /\ (loading' # loading) => (Len(subs') > Len(subs) \/ SubmissionCompletes)
         /\ HistoryCompletes => (loading' = loading) ]_vars

\* One of two calls in flight has completed: the other is still in flight
\* and loading is false.
C21_Witness ==
  /\ mounted
  /\ ev \in {"submitSucceeded", "submitFailed"}
  /\ Len(subs) = 1
  /\ ~loading

====
